---- MODULE Spec2Model ----
(***************************************************************************)
(* Model of src/script.py: a Streamlit script that loads a CSV of game     *)
(* results with pandas (load_data), offers season / team / game-type       *)
(* selectors, filters and sorts the selection (df_sel) and renders a line  *)
(* chart, a pie chart, metrics and a table of the last games.              *)
(*                                                                         *)
(* Text is a sequence of one-character strings, so that strip(), upper()   *)
(* and the numeric / date parsers are computed, not assumed.  A cell of a  *)
(* DataFrame is a record [na, ...]: na = TRUE is pandas' NaN / <NA> / NaT. *)
(* A DataFrame is [columns |-> set of names, rows |-> sequence of          *)
(* [idx |-> index label, c |-> [column -> cell]]]; reading a column that   *)
(* is not in `columns` is a KeyError in the script and is modelled as one. *)
(* The script runs top to bottom; an uncaught exception stops it and       *)
(* leaves on the page what was rendered before (pc = "crashed").           *)
(***************************************************************************)
EXTENDS Integers, Sequences, FiniteSets, TLC

VARIABLES
    file,           \* the CSV at data/nba_all_elo.csv: [readable, header, rows]
    pc,             \* position of the script run
    err,            \* name of the uncaught exception, "" when none
    df,             \* result of load_data() (line 54), cached across reruns
    selected_year,  \* line 64
    selected_team,  \* line 70
    fell_back,      \* whether line 69 replaced the season's teams by all teams
    game_type,      \* line 73
    df_sel,         \* lines 85-109
    shown,          \* widgets rendered so far in this run
    line_x,         \* x column of the line chart (line 119)
    total_wins,     \* line 134
    total_losses,   \* line 135
    win_rate,       \* the Win Rate metric, in hundredths of a percent (line 156)
    table           \* rows handed to st.dataframe (lines 159-161)

vars == <<file, pc, err, df, selected_year, selected_team, fell_back, game_type, df_sel,
          shown, line_x, total_wins, total_losses, win_rate, table>>

----------------------------------------------------------------------------
(* Text and cells *)

Digits == {"0", "1", "2", "3", "4", "5", "6", "7", "8", "9"}

DigitVal(ch) ==
    CASE ch = "0" -> 0 [] ch = "1" -> 1 [] ch = "2" -> 2 [] ch = "3" -> 3
      [] ch = "4" -> 4 [] ch = "5" -> 5 [] ch = "6" -> 6 [] ch = "7" -> 7
      [] ch = "8" -> 8 [] ch = "9" -> 9

AllDigits(s) == \A i \in 1..Len(s) : s[i] \in Digits

RECURSIVE IntOf(_)
IntOf(s) ==
    IF s = <<>> THEN 0
    ELSE IntOf(SubSeq(s, 1, Len(s) - 1)) * 10 + DigitVal(s[Len(s)])

\* Python None, for a selectbox over no options (integers / text).
NoneInt == -1
NoneStr == <<>>

\* A missing string cell (NaN in an object column) and a present one.
NaN == [na |-> TRUE, s |-> <<>>]
Str(s) == [na |-> FALSE, s |-> s]

\* A missing number (NaN, <NA>, NaT) and a present one; frac: the number
\* has a non-zero fractional part and v is its integer part.
NaNum == [na |-> TRUE, v |-> 0, frac |-> FALSE]
Num(n, f) == [na |-> FALSE, v |-> n, frac |-> f]

\* Some of the strings pandas.read_csv reads as NaN by default.
NaStrings == { <<>>, <<"N", "A">> }

\* str.strip(): leading and trailing blanks removed.
RECURSIVE LStrip(_)
LStrip(s) == IF s # <<>> /\ s[1] = " " THEN LStrip(Tail(s)) ELSE s

RECURSIVE RStrip(_)
RStrip(s) ==
    IF s # <<>> /\ s[Len(s)] = " " THEN RStrip(SubSeq(s, 1, Len(s) - 1)) ELSE s

strip(s) == RStrip(LStrip(s))

\* str.upper() on the letters the inputs use.
UpperChar(ch) ==
    CASE ch = "w" -> "W" [] ch = "l" -> "L" [] ch = "t" -> "T"
      [] ch = "i" -> "I" [] ch = "n" -> "N" [] OTHER -> ch

upper(s) == [i \in 1..Len(s) |-> UpperChar(s[i])]

\* pd.to_numeric(errors="coerce") of one cell, for unsigned decimal text:
\* digits, or digits with one decimal point; anything else becomes NaN.
to_numeric(x) ==
    IF x.na THEN NaNum
    ELSE LET s == x.s
             dots == {i \in 1..Len(s) : s[i] = "."}
         IN  IF dots = {}
             THEN IF Len(s) > 0 /\ AllDigits(s) THEN Num(IntOf(s), FALSE) ELSE NaNum
             ELSE IF Cardinality(dots) = 1
             THEN LET d == CHOOSE i \in dots : TRUE
                      ip == SubSeq(s, 1, d - 1)
                      fp == SubSeq(s, d + 1, Len(s))
                  IN  IF AllDigits(ip) /\ AllDigits(fp) /\ Len(ip) + Len(fp) > 0
                      THEN Num(IntOf(ip), IntOf(fp) # 0)
                      ELSE NaNum
             ELSE NaNum

IsLeap(y) == y % 4 = 0 /\ (y % 100 # 0 \/ y % 400 = 0)

DaysIn(y, m) ==
    IF m = 2 THEN (IF IsLeap(y) THEN 29 ELSE 28)
    ELSE IF m \in {4, 6, 9, 11} THEN 30 ELSE 31

\* pd.to_datetime(errors="coerce") of one cell, for YYYY-MM-DD text; the
\* date is kept as the number yyyymmdd, which orders as the dates do.
\* Anything else becomes NaT.
to_datetime(x) ==
    IF x.na THEN NaNum
    ELSE LET s == x.s IN
         IF /\ Len(s) = 10
            /\ s[5] = "-" /\ s[8] = "-"
            /\ AllDigits(SubSeq(s, 1, 4))
            /\ AllDigits(SubSeq(s, 6, 7))
            /\ AllDigits(SubSeq(s, 9, 10))
         THEN LET y == IntOf(SubSeq(s, 1, 4))
                  m == IntOf(SubSeq(s, 6, 7))
                  d == IntOf(SubSeq(s, 9, 10))
              IN  IF y >= 1 /\ m \in 1..12 /\ d \in 1..DaysIn(y, m)
                  THEN Num(y * 10000 + m * 100 + d, FALSE)
                  ELSE NaNum
         ELSE NaNum

----------------------------------------------------------------------------
(* load_data, lines 10-51 *)

\* rename_map, lines 15-22.
rename_map ==
    [k \in {"year_id", "team_id", "date_game", "seasongame", "is_playoffs",
            "game_result"} |->
        CASE k = "year_id" -> "season"
          [] k = "team_id" -> "team"
          [] k = "date_game" -> "game_date"
          [] OTHER -> k]

Renamed(k) == IF k \in DOMAIN rename_map THEN rename_map[k] ELSE k

\* pd.read_csv(path, dtype=str) followed by df.rename, lines 13-24: every
\* cell is text or NaN, the index is the row's position in the file.
read_csv(f) ==
    [columns |-> {Renamed(k) : k \in f.header},
     rows |-> [i \in 1..Len(f.rows) |->
        [idx |-> i,
         c |-> [col \in {Renamed(k) : k \in f.header} |->
                  LET k == CHOOSE k \in f.header : Renamed(k) = col
                  IN  IF f.rows[i][k] \in NaStrings THEN NaN
                      ELSE Str(f.rows[i][k])]]]]

\* The conversion each cleaning step of lines 26-48 applies to a cell.
Convert(step, x) ==
    CASE step = "to_numeric" -> to_numeric(x)
      [] step = "to_datetime" -> to_datetime(x)
      [] step = "fillna_int" -> (IF x.na THEN 0 ELSE x.v)
      [] step = "strip_upper" -> (IF x.na THEN x ELSE Str(upper(strip(x.s))))

\* df[col] = step(df[col]) when the column exists, else df unchanged.
MapColumn(d, col, step) ==
    IF col \notin d.columns THEN d
    ELSE [d EXCEPT !.rows =
            [i \in 1..Len(d.rows) |->
                [d.rows[i] EXCEPT !.c[col] = Convert(step, d.rows[i].c[col])]]]

\* .astype("Int64") of a float column raises TypeError when a value is not
\* integral ("cannot safely cast non-equivalent float64 to int64").
CastFails(d, col) ==
    col \in d.columns /\ \E i \in 1..Len(d.rows) : d.rows[i].c[col].frac

\* A faulty variant of DropSubset: team left out of the subset.
DropSubsetNoTeam(d) == {"game_result", "season"} \cap d.columns

\* line 42: dropna over those of team, game_result, season that exist.
DropSubset(d) == {"team", "game_result", "season"} \cap d.columns

dropna(d) ==
    [d EXCEPT !.rows =
        SelectSeq(d.rows, LAMBDA r : \A col \in DropSubset(d) : ~r.c[col].na)]

Playoffs == "Playoffs"
TemporadaRegular == "Temporada regular"

\* A faulty variant of TypeOf: any non-zero flag counts as a playoff game.
TypeOfTruthy(x) == IF x # 0 THEN Playoffs ELSE TemporadaRegular

\* line 45: the lambda applied to is_playoffs.
TypeOf(x) == IF x = 1 THEN Playoffs ELSE TemporadaRegular

AddType(d) ==
    [columns |-> d.columns \cup {"type"},
     rows |-> [i \in 1..Len(d.rows) |->
        [idx |-> d.rows[i].idx,
         c |-> [col \in d.columns \cup {"type"} |->
                  IF col = "type" THEN TypeOf(d.rows[i].c["is_playoffs"])
                  ELSE d.rows[i].c[col]]]]]

\* A faulty variant of KeepResult: every present result is kept.
KeepResultAny(x) == ~x.na

\* line 49: df[df["game_result"].isin(["W", "L"])].
KeepResult(x) == ~x.na /\ x.s \in { <<"W">>, <<"L">> }

FilterResult(d) ==
    [d EXCEPT !.rows = SelectSeq(d.rows, LAMBDA r : KeepResult(r.c["game_result"]))]

Raise(e) == [ok |-> FALSE, err |-> e]
Return(d) == [ok |-> TRUE, df |-> d]

load_data(f) ==
    IF ~f.readable THEN Raise("FileNotFoundError")
    ELSE
    LET d0 == read_csv(f)
        d1 == MapColumn(d0, "season", "to_numeric")
    IN  IF CastFails(d1, "season") THEN Raise("TypeError")
    ELSE
    LET d2 == MapColumn(d1, "seasongame", "to_numeric")
    IN  IF CastFails(d2, "seasongame") THEN Raise("TypeError")
    ELSE
    LET d3 == MapColumn(d2, "game_date", "to_datetime")
        d4 == MapColumn(MapColumn(d3, "is_playoffs", "to_numeric"),
                        "is_playoffs", "fillna_int")
        d5 == dropna(d4)
    IN  IF "is_playoffs" \notin d5.columns THEN Raise("KeyError")
    ELSE
    LET d6 == AddType(d5)
    IN  IF "game_result" \notin d6.columns THEN Raise("KeyError")
    ELSE Return(FilterResult(MapColumn(d6, "game_result", "strip_upper")))

----------------------------------------------------------------------------
(* Sorting: DataFrame.sort_values(by=[col]) with the default kind,         *)
(* "quicksort", and na_position="last".  pandas' nargsort sorts the rows   *)
(* whose key is present and appends the rows whose key is missing in the   *)
(* order they had.  The default kind is not a stable sort, so rows with    *)
(* equal keys may come out in any order: sort_values is the set of the     *)
(* orders a build can produce.                                             *)

Key(r, col) == r.c[col]

KeysOf(rows, col) == {Key(rows[i], col).v : i \in 1..Len(rows)}

MinOf(S) == CHOOSE x \in S : \A y \in S : x <= y
MaxOf(S) == CHOOSE x \in S : \A y \in S : x >= y

\* Every order of the rows of g.
Orderings(g) ==
    { [i \in 1..Len(g) |-> g[f[i]]] : f \in Permutations(1..Len(g)) }

\* The orders of rows (all keys present) that argsort(kind="quicksort") may
\* return: keys ascending (or descending), equal keys in any order.
RECURSIVE argsort(_, _, _, _)
argsort(rows, col, ascending, keys) ==
    IF keys = {} THEN { <<>> }
    ELSE LET k == IF ascending THEN MinOf(keys) ELSE MaxOf(keys)
             g == SelectSeq(rows, LAMBDA r : Key(r, col).v = k)
         IN  { p \o rest : p \in Orderings(g),
                           rest \in argsort(rows, col, ascending, keys \ {k}) }

nargsort(rows, col, ascending) ==
    LET present == SelectSeq(rows, LAMBDA r : ~Key(r, col).na)
        missing == SelectSeq(rows, LAMBDA r : Key(r, col).na)
    IN  { p \o missing : p \in argsort(present, col, ascending, KeysOf(present, col)) }

\* df[col].notna().any()
AnyNotNa(d, col) == \E i \in 1..Len(d.rows) : ~d.rows[i].c[col].na

\* The key of lines 93 and 160: seasongame when the column exists and has a
\* value, else game_date.
SortKey(d) ==
    IF "seasongame" \in d.columns /\ AnyNotNa(d, "seasongame")
    THEN "seasongame" ELSE "game_date"

----------------------------------------------------------------------------
(* The script, lines 54-161 *)

NoDF == [columns |-> {}, rows |-> <<>>]

GameTypes == {TemporadaRegular, Playoffs, "Ambos"}

Crash(e) == pc' = "crashed" /\ err' = e

\* line 54 (and load_data, lines 10-51).
Load ==
    /\ pc = "start"
    /\ LET r == load_data(file) IN
       IF r.ok THEN /\ df' = r.df
                    /\ pc' = "loaded"
                    /\ err' = err
       ELSE /\ df' = df
            /\ Crash(r.err)
    /\ UNCHANGED <<file, selected_year, selected_team, fell_back, game_type,
                   df_sel, shown, line_x, total_wins, total_losses, win_rate, table>>

\* line 62: the distinct seasons (sorted() only fixes the order offered).
Years(d) == {d.rows[i].c["season"].v : i \in {j \in 1..Len(d.rows) : ~d.rows[j].c["season"].na}}

\* lines 59-64: st.selectbox returns one of the options, None when there is
\* none to choose from.
SelectYear ==
    /\ pc = "loaded"
    /\ IF "season" \notin df.columns
       THEN Crash("KeyError") /\ UNCHANGED <<selected_year, shown>>
       ELSE /\ \E y \in (IF Years(df) = {} THEN {NoneInt} ELSE Years(df)) :
                  selected_year' = y
            /\ shown' = shown \cup {"year"}
            /\ pc' = "year"
            /\ err' = err
    /\ UNCHANGED <<file, df, selected_team, fell_back, game_type, df_sel,
                   line_x, total_wins, total_losses, win_rate, table>>

\* line 67: the teams of the rows of the selected season.
TeamsOf(d, y) ==
    {d.rows[i].c["team"].s : i \in {j \in 1..Len(d.rows) :
            ~d.rows[j].c["season"].na /\ d.rows[j].c["season"].v = y}}

\* line 69: all the teams.
AllTeams(d) == {d.rows[i].c["team"].s : i \in 1..Len(d.rows)}

\* lines 66-70.
SelectTeam ==
    /\ pc = "year"
    /\ IF "team" \notin df.columns
       THEN Crash("KeyError") /\ UNCHANGED <<selected_team, fell_back, shown>>
       ELSE LET teams == IF TeamsOf(df, selected_year) = {} THEN AllTeams(df)
                         ELSE TeamsOf(df, selected_year)
            IN  /\ fell_back' = (TeamsOf(df, selected_year) = {})
                /\ \E t \in (IF teams = {} THEN {NoneStr} ELSE teams) :
                      selected_team' = t
                /\ shown' = shown \cup {"team"}
                /\ pc' = "team"
                /\ err' = err
    /\ UNCHANGED <<file, df, selected_year, game_type, df_sel,
                   line_x, total_wins, total_losses, win_rate, table>>

\* lines 72-80.
SelectGameType ==
    /\ pc = "team"
    /\ \E g \in GameTypes : game_type' = g
    /\ shown' = shown \cup {"game_type"}
    /\ pc' = "sidebar"
    /\ UNCHANGED <<file, err, df, selected_year, selected_team, fell_back, df_sel,
                   line_x, total_wins, total_losses, win_rate, table>>

\* lines 85-90 as one selection.
Selected(d, y, g, t) ==
    [d EXCEPT !.rows =
        SelectSeq(d.rows, LAMBDA r :
            /\ ~r.c["season"].na /\ r.c["season"].v = y
            /\ (g # "Ambos" => r.c["type"] = g)
            /\ ~r.c["team"].na /\ r.c["team"].s = t)]

\* lines 85-90: int(None) raises TypeError.
Filter ==
    /\ pc = "sidebar"
    /\ IF selected_year = NoneInt
       THEN Crash("TypeError") /\ df_sel' = df_sel
       ELSE /\ df_sel' = Selected(df, selected_year, game_type, selected_team)
            /\ pc' = "filtered"
            /\ err' = err
    /\ UNCHANGED <<file, df, selected_year, selected_team, fell_back, game_type,
                   shown, line_x, total_wins, total_losses, win_rate, table>>

\* lines 92-98.
Sort ==
    /\ pc = "filtered"
    /\ IF SortKey(df_sel) \notin df_sel.columns
       THEN Crash("KeyError") /\ UNCHANGED <<df_sel, shown>>
       ELSE /\ \E s \in nargsort(df_sel.rows, SortKey(df_sel), TRUE) :
                  df_sel' = [df_sel EXCEPT !.rows = s]
            /\ shown' = shown \cup {"title"}
            /\ pc' = "sorted"
            /\ err' = err
    /\ UNCHANGED <<file, df, selected_year, selected_team, fell_back, game_type,
                   line_x, total_wins, total_losses, win_rate, table>>

\* df_sel.empty, line 100.
Empty(d) == Len(d.rows) = 0 \/ d.columns = {}

\* lines 100-101.
Warn ==
    /\ pc = "sorted"
    /\ Empty(df_sel)
    /\ shown' = shown \cup {"warning"}
    /\ pc' = "done"
    /\ UNCHANGED <<file, err, df, selected_year, selected_team, fell_back, game_type,
                   df_sel, line_x, total_wins, total_losses, win_rate, table>>

\* lines 104-105: (game_result == x).astype(int).
Flag(r, x) == IF r.c["game_result"] = Str(x) THEN 1 ELSE 0

\* Series.cumsum(): the sum of the first i values of a column.
RECURSIVE CumSum(_, _, _)
CumSum(rows, col, i) ==
    IF i = 0 THEN 0 ELSE CumSum(rows, col, i - 1) + rows[i].c[col]

\* lines 104-105.
WithFlags(d) ==
    [columns |-> d.columns \cup {"is_win", "is_loss"},
     rows |-> [i \in 1..Len(d.rows) |->
        [idx |-> d.rows[i].idx,
         c |-> [col \in d.columns \cup {"is_win", "is_loss"} |->
                  CASE col = "is_win" -> Flag(d.rows[i], <<"W">>)
                    [] col = "is_loss" -> Flag(d.rows[i], <<"L">>)
                    [] OTHER -> d.rows[i].c[col]]]]]

\* lines 108-109.
WithCumSums(d) ==
    [columns |-> d.columns \cup {"Acum Ganados", "Acum Perdidos"},
     rows |-> [i \in 1..Len(d.rows) |->
        [idx |-> d.rows[i].idx,
         c |-> [col \in d.columns \cup {"Acum Ganados", "Acum Perdidos"} |->
                  CASE col = "Acum Ganados" -> CumSum(d.rows, "is_win", i)
                    [] col = "Acum Perdidos" -> CumSum(d.rows, "is_loss", i)
                    [] OTHER -> d.rows[i].c[col]]]]]

\* lines 103-109.
Accumulated(d) == WithCumSums(WithFlags(d))

Accumulate ==
    /\ pc = "sorted"
    /\ ~Empty(df_sel)
    /\ df_sel' = Accumulated(df_sel)
    /\ pc' = "accumulated"
    /\ UNCHANGED <<file, err, df, selected_year, selected_team, fell_back, game_type,
                   shown, line_x, total_wins, total_losses, win_rate, table>>

\* line 119: the x column of the line chart.
LineX(d) ==
    IF "game_date" \in d.columns /\ AnyNotNa(d, "game_date")
    THEN "game_date" ELSE "seasongame"

\* Series.sum()
Sum(rows, col) == CumSum(rows, col, Len(rows))

\* lines 116-144: px.line raises ValueError when x names no column.
Charts ==
    /\ pc = "accumulated"
    /\ IF LineX(df_sel) \notin df_sel.columns
       THEN Crash("ValueError")
            /\ UNCHANGED <<shown, line_x, total_wins, total_losses>>
       ELSE /\ line_x' = LineX(df_sel)
            /\ total_wins' = Sum(df_sel.rows, "is_win")
            /\ total_losses' = Sum(df_sel.rows, "is_loss")
            /\ shown' = shown \cup {"line", "pie"}
            /\ pc' = "charts"
            /\ err' = err
    /\ UNCHANGED <<file, df, selected_year, selected_team, fell_back, game_type,
                   df_sel, win_rate, table>>

\* A faulty variant of WinRate: the ratio is not scaled to a percentage.
WinRateUnscaled(wins, total) ==
    LET n == wins * 100
        q == n \div total
        r == n % total
    IN  IF 2 * r > total \/ (2 * r = total /\ q % 2 = 1) THEN q + 1 ELSE q

\* f"{x:.2f}" of wins / total * 100, in hundredths: the nearest hundredth,
\* a tie going to the even one.
WinRate(wins, total) ==
    LET n == wins * 10000
        q == n \div total
        r == n % total
    IN  IF 2 * r > total \/ (2 * r = total /\ q % 2 = 1) THEN q + 1 ELSE q

NoRate == -1

\* lines 149-156.
Metrics ==
    /\ pc = "charts"
    /\ IF total_wins + total_losses > 0
       THEN /\ win_rate' = WinRate(total_wins, total_wins + total_losses)
            /\ shown' = shown \cup {"total", "wins", "losses", "win_rate"}
       ELSE /\ win_rate' = NoRate
            /\ shown' = shown \cup {"total", "wins", "losses"}
    /\ pc' = "metrics"
    /\ UNCHANGED <<file, err, df, selected_year, selected_team, fell_back, game_type,
                   df_sel, line_x, total_wins, total_losses, table>>

\* line 159: the columns of the table.
TableColumns ==
    {"season", "seasongame", "game_date", "team", "game_result", "type",
     "pts", "opp_id", "opp_pts"}

\* .head(50), line 161.
HeadRows == 50

\* A faulty variant of head: one row too many.
head_plus_one(rows, n) == SubSeq(rows, 1, IF Len(rows) < n + 1 THEN Len(rows) ELSE n + 1)

head(rows, n) == SubSeq(rows, 1, IF Len(rows) < n THEN Len(rows) ELSE n)

Project(rows, cols) ==
    [i \in 1..Len(rows) |->
        [idx |-> rows[i].idx, c |-> [col \in cols |-> rows[i].c[col]]]]

\* lines 158-161.
Table ==
    /\ pc = "metrics"
    /\ IF ~(TableColumns \subseteq df_sel.columns)
       THEN Crash("KeyError") /\ UNCHANGED <<shown, table>>
       ELSE /\ \E s \in nargsort(Project(df_sel.rows, TableColumns),
                                 SortKey(df_sel), FALSE) :
                  table' = head(s, HeadRows)
            /\ shown' = shown \cup {"table"}
            /\ pc' = "done"
            /\ err' = err
    /\ UNCHANGED <<file, df, selected_year, selected_team, fell_back, game_type,
                   df_sel, line_x, total_wins, total_losses, win_rate>>

\* A widget is changed: Streamlit runs the script again from the top, and
\* st.cache_data (line 10) returns the dataset loaded before.
Rerun ==
    /\ pc = "done"
    /\ pc' = "loaded"
    /\ selected_year' = NoneInt
    /\ selected_team' = NoneStr
    /\ fell_back' = FALSE
    /\ game_type' = "Ambos"
    /\ df_sel' = NoDF
    /\ shown' = {}
    /\ line_x' = ""
    /\ total_wins' = 0
    /\ total_losses' = 0
    /\ win_rate' = NoRate
    /\ table' = <<>>
    /\ UNCHANGED <<file, err, df>>

Next ==
    \/ Load
    \/ SelectYear
    \/ SelectTeam
    \/ SelectGameType
    \/ Filter
    \/ Sort
    \/ Warn
    \/ Accumulate
    \/ Charts
    \/ Metrics
    \/ Table
    \/ Rerun

\* The state before line 54 runs, for a given file.
Start(f) ==
    /\ file = f
    /\ pc = "start"
    /\ err = ""
    /\ df = NoDF
    /\ selected_year = NoneInt
    /\ selected_team = NoneStr
    /\ fell_back = FALSE
    /\ game_type = "Ambos"
    /\ df_sel = NoDF
    /\ shown = {}
    /\ line_x = ""
    /\ total_wins = 0
    /\ total_losses = 0
    /\ win_rate = NoRate
    /\ table = <<>>

----------------------------------------------------------------------------
(* Input files *)

SourceColumns ==
    {"year_id", "team_id", "date_game", "seasongame", "is_playoffs",
     "game_result", "pts", "opp_id", "opp_pts"}

BOS == <<"B", "O", "S">>
LAL == <<"L", "A", "L">>
Y2015 == <<"2", "0", "1", "5">>
Y2016 == <<"2", "0", "1", "6">>
Jan1 == <<"2", "0", "1", "5", "-", "0", "1", "-", "0", "1">>
Jan2 == <<"2", "0", "1", "5", "-", "0", "1", "-", "0", "2">>
Feb30 == <<"2", "0", "1", "5", "-", "0", "2", "-", "3", "0">>

\* A well-formed line of the file.
BaseRow ==
    [k \in SourceColumns |->
        CASE k = "year_id" -> Y2015
          [] k = "team_id" -> BOS
          [] k = "date_game" -> Jan2
          [] k = "seasongame" -> <<"1">>
          [] k = "is_playoffs" -> <<"0">>
          [] k = "game_result" -> <<"W">>
          [] k = "pts" -> <<"9", "9">>
          [] k = "opp_id" -> LAL
          [] k = "opp_pts" -> <<"9", "8">>]

\* The other texts a field takes in the files checked.
Variants(k) ==
    CASE k = "year_id" -> { Y2016, <<"x">>, <<>>, <<"2", "0", "1", "5", ".", "5">> }
      [] k = "team_id" -> { LAL, <<>> }
      [] k = "date_game" -> { Jan1, Feb30, <<>> }
      [] k = "seasongame" -> { <<"2">>, <<>>, <<"x">>, <<"1", ".", "5">> }
      [] k = "is_playoffs" -> { <<"1">>, <<>>, <<"x">>, <<"2">>, <<"1", ".", "0">> }
      [] k = "game_result" -> { <<"L">>, <<" ", "w", " ">>, <<"T">>,
                                 <<"w", "i", "n">>, <<>> }
      [] OTHER -> {}

\* The base line and every line that differs from it in one field.
RowPool ==
    {BaseRow} \cup
    UNION { { [BaseRow EXCEPT ![k] = v] : v \in Variants(k) } : k \in SourceColumns }

MaxRows == 2

SeqsUpTo(S, n) == UNION { [1..m -> S] : m \in 0..n }

\* A file with the columns hdr and the given lines.
CsvFile(hdr, rows) ==
    [readable |-> TRUE,
     header |-> hdr,
     rows |-> [i \in 1..Len(rows) |-> [k \in hdr |-> rows[i][k]]]]

\* No file at the path, or one that cannot be read.
NoFile == [readable |-> FALSE, header |-> {}, rows |-> <<>>]

\* Files with every column and up to MaxRows lines, each line well formed
\* but for one field.
Init == \E rows \in SeqsUpTo(RowPool, MaxRows) : Start(CsvFile(SourceColumns, rows))

Spec == Init /\ [][Next]_vars

(* One team's season, long enough for the table's cut at 50 rows. *)

DigitChar(d) ==
    CASE d = 0 -> "0" [] d = 1 -> "1" [] d = 2 -> "2" [] d = 3 -> "3"
      [] d = 4 -> "4" [] d = 5 -> "5" [] d = 6 -> "6" [] d = 7 -> "7"
      [] d = 8 -> "8" [] d = 9 -> "9"

RECURSIVE NumText(_)
NumText(n) ==
    IF n < 10 THEN <<DigitChar(n)>> ELSE Append(NumText(n \div 10), DigitChar(n % 10))

Pad2(n) == IF n < 10 THEN <<"0">> \o NumText(n) ELSE NumText(n)

\* The j-th day of the 2015 calendar laid out in 28-day months.
DateText(j) ==
    Y2015 \o <<"-">> \o Pad2(1 + ((j - 1) \div 28)) \o <<"-">> \o Pad2(1 + ((j - 1) % 28))

TableSlack == 1
MaxNulls == 1

\* Modulus of the scattered order, above every file length used.
Scatter == HeadRows + 9

\* The game number of line i of n: in file order, in reverse, or scattered.
GameNo(order, i, n) ==
    CASE order = "asc" -> i
      [] order = "desc" -> n + 1 - i
      [] OTHER -> ((i * 7) % Scatter) + 1

\* Line i of a season of n games.  nulls lines (from the third on) have no
\* key; with dup the second line repeats the first line's key; bydate
\* leaves seasongame empty throughout, so that the date is the key;
\* the last po lines are playoff games.
SeasonRow(i, n, order, nulls, dup, bydate, po) ==
    LET g == IF dup /\ i = 2 THEN GameNo(order, 1, n) ELSE GameNo(order, i, n)
        nokey == i \in 3..(2 + nulls)
    IN  [k \in SourceColumns |->
            CASE k = "seasongame" -> IF bydate \/ nokey THEN <<>> ELSE NumText(g)
              [] k = "date_game" ->
                    IF bydate THEN (IF nokey THEN <<>> ELSE DateText(g))
                    ELSE DateText(Scatter + 1 - g)
              [] k = "game_result" -> IF i % 3 = 0 THEN <<"L">> ELSE <<"W">>
              [] k = "is_playoffs" -> IF i > n - po THEN <<"1">> ELSE <<"0">>
              [] OTHER -> BaseRow[k]]

InitTable ==
    \E n \in (HeadRows - TableSlack)..(HeadRows + TableSlack),
       order \in {"asc", "desc", "scattered"},
       nulls \in 0..MaxNulls,
       dup \in BOOLEAN, bydate \in BOOLEAN, po \in {0, 2} :
        Start(CsvFile(SourceColumns,
                      [i \in 1..n |-> SeasonRow(i, n, order, nulls, dup, bydate, po)]))

SpecTable == InitTable /\ [][Next]_vars

(* Files of one or more lines that lack columns, and the unreadable file. *)

MaxMissing == 1

ColsPool ==
    { BaseRow,
      [BaseRow EXCEPT !["is_playoffs"] = <<"1">>, !["game_result"] = <<"L">>],
      [BaseRow EXCEPT !["seasongame"] = <<>>] }

ColsRows == 2

InitCols ==
    \/ Start(NoFile)
    \/ \E missing \in SUBSET SourceColumns, rows \in SeqsUpTo(ColsPool, ColsRows) :
          /\ Cardinality(missing) <= MaxMissing
          /\ Len(rows) > 0
          /\ Start(CsvFile(SourceColumns \ missing, rows))

SpecCols == InitCols /\ [][Next]_vars

----------------------------------------------------------------------------
(* The properties checked *)

\* The pipeline has produced the view of the current selection.
ViewStages == {"sorted", "accumulated", "charts", "metrics", "done"}

\* Cell k of line i of the file, as read_csv reads it.
SourceCell(i, k) ==
    IF file.rows[i][k] \in NaStrings THEN NaN ELSE Str(file.rows[i][k])

SeasonIsInteger(i) ==
    LET x == to_numeric(SourceCell(i, "year_id")) IN ~x.na /\ ~x.frac

ResultIsWL(i) ==
    LET x == SourceCell(i, "game_result")
    IN  ~x.na /\ upper(strip(x.s)) \in { <<"W">>, <<"L">> }

ShouldRetain(i) ==
    ~SourceCell(i, "team_id").na /\ SeasonIsInteger(i) /\ ResultIsWL(i)

Retained(i) == \E j \in 1..Len(df.rows) : df.rows[j].idx = i

Abs(x) == IF x < 0 THEN -x ELSE x

\* C1: once load_data has run, a line of the file is in the dataset if and
\* only if its team is present, its season parses to an integer and its
\* result, stripped and uppercased, is W or L; every retained row has a
\* season, a team and a result in {W, L}; an unparseable date, game number
\* or playoff flag never costs a row its place.
C1_RetainedIffValid ==
    pc # "start" =>
        /\ \A i \in 1..Len(file.rows) : Retained(i) <=> ShouldRetain(i)
        /\ \A j \in 1..Len(df.rows) :
              /\ ~df.rows[j].c["season"].na
              /\ ~df.rows[j].c["team"].na
              /\ df.rows[j].c["game_result"].s \in { <<"W">>, <<"L">> }

\* What does hold of load_data: the same, whenever it returns.
C1_WhenLoadReturns ==
    (pc # "start" /\ ~(pc = "crashed" /\ df = NoDF)) =>
        /\ \A i \in 1..Len(file.rows) : Retained(i) <=> ShouldRetain(i)
        /\ \A j \in 1..Len(df.rows) :
              /\ ~df.rows[j].c["season"].na
              /\ ~df.rows[j].c["team"].na
              /\ df.rows[j].c["game_result"].s \in { <<"W">>, <<"L">> }

\* C2: in every view with its running counts, the counts of row i (from 1)
\* add up to i, each row adds 1 to exactly one of them, and the first
\* row's counts are its own contribution.
C2_CumulativeSum ==
    "Acum Ganados" \in df_sel.columns =>
        LET rows == df_sel.rows
            w(i) == rows[i].c["Acum Ganados"]
            l(i) == rows[i].c["Acum Perdidos"]
        IN  \A i \in 1..Len(rows) :
              /\ w(i) + l(i) = i
              /\ rows[i].c["is_win"] + rows[i].c["is_loss"] = 1
              /\ rows[i].c["is_win"] = 1 <=> rows[i].c["game_result"].s = <<"W">>
              /\ w(i) = (IF i = 1 THEN 0 ELSE w(i - 1)) + rows[i].c["is_win"]
              /\ l(i) = (IF i = 1 THEN 0 ELSE l(i - 1)) + rows[i].c["is_loss"]

C2_Witness ==
    /\ pc = "done"
    /\ "Acum Ganados" \in df_sel.columns
    /\ Len(df_sel.rows) = 2
    /\ Len(df.rows) = 2
    /\ Len(file.rows) = 2
    /\ df_sel.rows[1].c["Acum Ganados"] = 0
    /\ df_sel.rows[2].c["Acum Ganados"] = 1
    /\ df_sel.rows[2].c["Acum Perdidos"] = 1

\* The key the claims name: seasongame when a row of the view has one,
\* else game_date.
ClaimedKey(rows) ==
    IF \E i \in 1..Len(rows) : ~rows[i].c["seasongame"].na
    THEN "seasongame" ELSE "game_date"

\* rows are in ascending order of k, the rows without k last.
Ascending(rows, k) ==
    \A i, j \in 1..Len(rows) : i < j =>
        /\ rows[i].c[k].na => rows[j].c[k].na
        /\ (~rows[i].c[k].na /\ ~rows[j].c[k].na) => rows[i].c[k].v <= rows[j].c[k].v

\* rows with equal keys, or without key, are in the order of the dataset.
Stable(rows, k) ==
    \A i, j \in 1..Len(rows) :
        (i < j /\ rows[i].c[k] = rows[j].c[k]) => rows[i].idx < rows[j].idx

\* C3: the view is in ascending order of seasongame when a row has one and
\* of game_date otherwise, rows without key last, and the sort is stable.
C3_StableSort ==
    pc \in ViewStages =>
        /\ Ascending(df_sel.rows, ClaimedKey(df_sel.rows))
        /\ Stable(df_sel.rows, ClaimedKey(df_sel.rows))

\* What does hold of the view: the order, without the stability.
C3_Ordered ==
    pc \in ViewStages => Ascending(df_sel.rows, ClaimedKey(df_sel.rows))

\* A missing key ranks below every key (keys are not negative).
Rank(x) == IF x.na THEN -1 ELSE x.v

IdxOf(rows) == {rows[i].idx : i \in 1..Len(rows)}

\* C4: the table has at most 50 rows, is in descending order of the key
\* the view is in ascending order of, and holds, when the view has more
\* than 50 rows, the 50 rows of the view with the largest keys.
C4_TableTop50 ==
    (pc = "done" /\ "table" \in shown) =>
        LET k == ClaimedKey(df_sel.rows)
            view == df_sel.rows
        IN  /\ Len(table) <= 50
            /\ Ascending(view, k)
            /\ \A i, j \in 1..Len(table) :
                  i < j => Rank(table[i].c[k]) >= Rank(table[j].c[k])
            /\ IdxOf(table) \subseteq IdxOf(view)
            /\ Cardinality(IdxOf(table)) = Len(table)
            /\ Len(view) <= 50 => Len(table) = Len(view)
            /\ Len(view) > 50 =>
                  /\ Len(table) = 50
                  /\ \A i \in 1..Len(view), j \in 1..Len(table) :
                        view[i].idx \notin IdxOf(table) =>
                            Rank(view[i].c[k]) <= Rank(table[j].c[k])

C4_Witness ==
    /\ pc = "done"
    /\ "table" \in shown
    /\ Len(df_sel.rows) > 50
    /\ Len(table) = 50
    /\ ~df_sel.rows[1].c["seasongame"].na
    /\ df_sel.rows[Len(df_sel.rows)].c["seasongame"].na
    /\ df_sel.rows[Len(df_sel.rows)].idx \notin IdxOf(table)
    /\ table[1].idx = df_sel.rows[Len(df_sel.rows) - 1].idx

CountResult(rows, x) ==
    Cardinality({i \in 1..Len(rows) : rows[i].c["game_result"].s = x})

\* C5: the win rate is shown only for a view with rows and is then
\* wins / games * 100 (to the nearest hundredth, as displayed), games being
\* the rows of the view, wins its W rows and losses its L rows; for an
\* empty view it is neither computed nor shown, and nothing divides by 0.
C5_WinRate ==
    /\ "total" \in shown =>
          LET games == Len(df_sel.rows) IN
          /\ total_wins = CountResult(df_sel.rows, <<"W">>)
          /\ total_losses = CountResult(df_sel.rows, <<"L">>)
          /\ total_wins + total_losses = games
          /\ games > 0
          /\ "win_rate" \in shown
          /\ 2 * Abs(win_rate * games - total_wins * 10000) <= games
    /\ (pc \in ViewStages /\ Len(df_sel.rows) = 0) =>
          /\ "win_rate" \notin shown
          /\ win_rate = NoRate
    /\ "win_rate" \notin shown => win_rate = NoRate
    /\ err # "ZeroDivisionError"

C5_Witness ==
    /\ pc = "done"
    /\ "win_rate" \in shown
    /\ total_wins = 34
    /\ total_losses = 17
    /\ win_rate = 6667

MandatoryColumns == {"year_id", "team_id", "game_result"}

Rendered == {"year", "team", "game_type", "title", "warning", "line", "pie",
             "total", "wins", "losses", "win_rate", "table"}

\* C7: when the file cannot be read or lacks a mandatory column, loading
\* fails before any selector, chart, metric or table is produced, and load
\* never returns a dataset without a mandatory column.
C7_LoadFailsWithoutMandatory ==
    (pc # "start" /\ (~file.readable \/ ~(MandatoryColumns \subseteq file.header))) =>
        /\ pc = "crashed"
        /\ df = NoDF
        /\ shown \cap Rendered = {}

\* C8: a readable file with the mandatory columns that lacks an optional
\* column is loaded and rendered without a missing-column error.
C8_OptionalColumnsOptional ==
    (file.readable /\ MandatoryColumns \subseteq file.header) =>
        err \notin {"KeyError", "ValueError"}

\* C9: when the selection matches no row of the dataset, the view is empty,
\* the notice is shown, no chart, metric or table is produced, no running
\* count or win rate is computed and no exception is raised.
C9_NoDataPath ==
    ("game_type" \in shown
        /\ Len(Selected(df, selected_year, game_type, selected_team).rows) = 0) =>
        /\ err = ""
        /\ pc # "crashed"
        /\ Len(df_sel.rows) = 0
        /\ shown \cap {"line", "pie", "total", "wins", "losses", "win_rate", "table"} = {}
        /\ "Acum Ganados" \notin df_sel.columns
        /\ win_rate = NoRate
        /\ pc = "done" => "warning" \in shown

\* What does hold: the same for a dataset that has rows.
C9_NoDataPathNonEmptyDataset ==
    ("game_type" \in shown /\ Len(df.rows) > 0
        /\ Len(Selected(df, selected_year, game_type, selected_team).rows) = 0) =>
        /\ err = ""
        /\ pc # "crashed"
        /\ Len(df_sel.rows) = 0
        /\ shown \cap {"line", "pie", "total", "wins", "losses", "win_rate", "table"} = {}
        /\ "Acum Ganados" \notin df_sel.columns
        /\ win_rate = NoRate
        /\ pc = "done" => "warning" \in shown

\* C10: in a dataset with rows every season offered has a team, the list
\* of all teams is never fallen back on, the team chosen is one of the
\* selected season, every offered season and team gives a view with rows
\* under Ambos, and a view without rows has another game type.
C10_OfferedSelectionsHaveRows ==
    Len(df.rows) > 0 =>
        /\ \A y \in Years(df) :
              /\ TeamsOf(df, y) # {}
              /\ \A t \in TeamsOf(df, y) : Len(Selected(df, y, "Ambos", t).rows) > 0
        /\ "team" \in shown =>
              /\ ~fell_back
              /\ \E j \in 1..Len(df.rows) :
                    /\ df.rows[j].c["season"].v = selected_year
                    /\ df.rows[j].c["team"] = Str(selected_team)
        /\ (pc \in ViewStages /\ Len(df_sel.rows) = 0) => game_type # "Ambos"
        /\ (pc \in ViewStages /\ game_type = "Ambos") => Len(df_sel.rows) > 0

C10_Witness ==
    /\ pc = "done"
    /\ Cardinality(Years(df)) = 2
    /\ game_type = "Ambos"
    /\ Len(df_sel.rows) = 1
    /\ "table" \in shown

====
